---- MODULE Spec2Model ----
(***************************************************************************)
(* Model of the two on-chain programs of orgorush-hackathon/contracts:     *)
(*   dynamic_staking.rs  (staking pool, rewards, scripted rebalance)       *)
(*   orgo_swap.rs        (escrowed swap with burn, fee-discount staking)   *)
(*                                                                         *)
(* Token amounts are u64 and the intermediate products are u128.  TLC's    *)
(* integers are 32 bits wide, so amounts are kept as exact naturals in a   *)
(* little-endian sequence of hexadecimal digits (<<>> is zero, no leading  *)
(* zero digit).  A u64 is at most 16 digits, a u128 at most 32.  Nothing   *)
(* is scaled: 100_000_000_000 and 2^64 - 1 are the values of the code.     *)
(***************************************************************************)
EXTENDS Integers, Sequences, FiniteSets, TLC

----------------------------------------------------------------------------
(* Exact natural-number arithmetic on digit sequences.                     *)

RECURSIVE Norm(_)
Norm(s) ==
    IF s = <<>> THEN <<>>
    ELSE IF s[Len(s)] = 0 THEN Norm(SubSeq(s, 1, Len(s) - 1))
    ELSE s

RECURSIVE N(_)
N(n) == IF n = 0 THEN <<>> ELSE <<n % 16>> \o N(n \div 16)

RECURSIVE ToInt(_)
ToInt(s) == IF s = <<>> THEN 0 ELSE s[1] + 16 * ToInt(Tail(s))

Digit(s, i) == IF i <= Len(s) THEN s[i] ELSE 0

RECURSIVE AddFrom(_, _, _, _)
AddFrom(a, b, i, c) ==
    IF i > Len(a) /\ i > Len(b)
    THEN (IF c = 0 THEN <<>> ELSE <<c>>)
    ELSE <<(Digit(a, i) + Digit(b, i) + c) % 16>>
         \o AddFrom(a, b, i + 1, (Digit(a, i) + Digit(b, i) + c) \div 16)

NatAdd(a, b) == AddFrom(a, b, 1, 0)

RECURSIVE LessFrom(_, _, _)
LessFrom(a, b, i) ==
    IF i = 0 THEN FALSE
    ELSE IF a[i] # b[i] THEN a[i] < b[i]
    ELSE LessFrom(a, b, i - 1)

NatLess(a, b) ==
    IF Len(a) # Len(b) THEN Len(a) < Len(b) ELSE LessFrom(a, b, Len(a))

NatLeq(a, b) == ~NatLess(b, a)

NatMin(a, b) == IF NatLess(b, a) THEN b ELSE a

RECURSIVE SubFrom(_, _, _, _)
SubFrom(a, b, i, br) ==
    IF i > Len(a) THEN <<>>
    ELSE <<(a[i] - Digit(b, i) - br + 16) % 16>>
         \o SubFrom(a, b, i + 1, IF a[i] - Digit(b, i) - br < 0 THEN 1 ELSE 0)

(* a - b for b <= a *)
NatSub(a, b) == Norm(SubFrom(a, b, 1, 0))

RECURSIVE MulFrom(_, _, _, _)
MulFrom(a, k, i, c) ==
    IF i > Len(a) THEN N(c)
    ELSE <<(a[i] * k + c) % 16>> \o MulFrom(a, k, i + 1, (a[i] * k + c) \div 16)

(* a * k for an integer 0 <= k < 2^27 *)
NatMulSmall(a, k) == IF k = 0 THEN <<>> ELSE MulFrom(a, k, 1, 0)

Shift(s) == IF s = <<>> THEN <<>> ELSE <<0>> \o s

RECURSIVE MulAcc(_, _, _)
MulAcc(a, b, i) ==
    IF i > Len(b) THEN <<>>
    ELSE NatAdd(NatMulSmall(a, b[i]), Shift(MulAcc(a, b, i + 1)))

NatMul(a, b) == MulAcc(a, b, 1)

RECURSIVE DivFrom(_, _, _, _)
DivFrom(a, d, i, r) ==
    IF i = 0 THEN <<>>
    ELSE DivFrom(a, d, i - 1, (r * 16 + a[i]) % d) \o <<(r * 16 + a[i]) \div d>>

(* floor(a / d) for an integer 0 < d < 2^27 *)
NatDivSmall(a, d) == Norm(DivFrom(a, d, Len(a), 0))

(* `x as u64` of a wider unsigned value: the low 64 bits *)
TruncU64(a) == IF Len(a) <= 16 THEN a ELSE Norm(SubSeq(a, 1, 16))

U64Max == <<15, 15, 15, 15, 15, 15, 15, 15, 15, 15, 15, 15, 15, 15, 15, 15>>

FitsU64(a) == Len(a) <= 16

Zero == <<>>

(* u64 `a + b`: a build with overflow checks panics when the sum does not  *)
(* fit, a build without them keeps the low 64 bits.                        *)
AddU64(a, b, checks) ==
    [ok  |-> FitsU64(NatAdd(a, b)) \/ ~checks,
     val |-> TruncU64(NatAdd(a, b))]

Min(a, b) == IF a < b THEN a ELSE b
Max(a, b) == IF a > b THEN a ELSE b

----------------------------------------------------------------------------
(* Bounds of the exploration.                                              *)

MaxSteps == 4

(* Program constants.                                                      *)
SecondsPerDay == 86400
SecondsPerYear == 31536000
DiscountUnit == 100000000
DiscountPerUnit == 50
MaxDiscountBps == 5000
AiBoostMultiplier == 120
BaseApy == 1570

(* 100_000_000_000: the stake that switches the boost on *)
BoostThreshold == NatMulSmall(N(1000000000), 100)

(* Clock advances tried between instructions: one second, one day, and a   *)
(* span (seven years) over which the accrued reward exceeds the principal. *)
SevenYears == 7 * SecondsPerYear
Deltas == {1, SecondsPerDay, SevenYears}

----------------------------------------------------------------------------
VARIABLES
    now,             \* Clock::get()?.unix_timestamp
    overflow_checks, \* whether the program was built with overflow checks
    tokens,          \* balance of every token account
    accounts,        \* the program accounts that exist (init / init_if_needed)
    staking_pool,    \* StakingPool
    user_stake,      \* UserStake
    escrow,          \* EscrowAccount
    stake_account,   \* StakeAccount
    last,            \* the last instruction: inputs, result, what it did
    history,         \* what the claims remember of earlier instructions
    probe,           \* inputs and results of calculate_pending_rewards alone
    steps            \* number of steps taken

vars == <<now, overflow_checks, tokens, accounts, staking_pool, user_stake,
          escrow, stake_account, last, history, probe, steps>>

----------------------------------------------------------------------------
(* Token program (anchor_spl::token::transfer): moves `amount` between two *)
(* token accounts; fails when the source holds less than `amount` or the   *)
(* destination balance would exceed u64.  A transfer of an account to      *)
(* itself only checks the balance.                                         *)

Transfer(tok, from, to, amount) ==
    [ok     |-> NatLeq(amount, tok[from])
                /\ (from = to \/ FitsU64(NatAdd(tok[to], amount))),
     tokens |-> IF from = to THEN tok
                ELSE [tok EXCEPT ![from] = NatSub(tok[from], amount),
                                 ![to]   = NatAdd(tok[to], amount)]]

(* The records an instruction can write. *)
Recs == [pool   |-> staking_pool,
         user   |-> user_stake,
         escrow |-> escrow,
         stake  |-> stake_account]

(* How a handler ends: its result, the balances and records as its code    *)
(* left them at that point, the order of its require-checks, transfers and *)
(* record writes, and the transfers that succeeded.                        *)
Exit(result, tok, recs, trace, moved) ==
    [result |-> result, tokens |-> tok, recs |-> recs,
     trace |-> trace, moved |-> moved]

NoInput == [amount |-> Zero, min_amount_out |-> Zero, burn_bps |-> 0,
            multiplier |-> 0, to_self |-> FALSE]

----------------------------------------------------------------------------
(* dynamic_staking.rs                                                      *)

InitialAllocations ==
    << [protocol |-> "Meteora", weight |-> 6000, current_apy |-> 1800,
        risk_score |-> 200],
       [protocol |-> "Raydium", weight |-> 3000, current_apy |-> 1500,
        risk_score |-> 300],
       [protocol |-> "Orca", weight |-> 1000, current_apy |-> 1200,
        risk_score |-> 150] >>

initialize_staking_pool(t) ==
    [total_staked        |-> Zero,
     total_rewards       |-> Zero,
     base_apy            |-> BaseApy,
     ai_boost_multiplier |-> AiBoostMultiplier,
     last_rebalance      |-> t,
     allocations         |-> InitialAllocations]

RECURSIVE SumWeights(_)
SumWeights(allocs) ==
    IF allocs = <<>> THEN 0 ELSE Head(allocs).weight + SumWeights(Tail(allocs))

(* The per-protocol arm of the loop of rebalance_allocations, with         *)
(* market_volatility = 25 > 20.  Orca's weight is at least 500 in every    *)
(* reachable state, so the u64 `weight - 200` does not underflow.          *)
AdjustAllocation(a) ==
    IF a.protocol = "Meteora"
    THEN [a EXCEPT !.weight = Min(7000, a.weight + 500), !.current_apy = 1900]
    ELSE IF a.protocol = "Raydium"
    THEN [a EXCEPT !.weight = 2500, !.current_apy = 1600]
    ELSE IF a.protocol = "Orca"
    THEN [a EXCEPT !.weight = Max(500, a.weight - 200), !.current_apy = 1100]
    ELSE a

(* `(10000 - total_weight) as i64` is a u64 subtraction: with total_weight *)
(* above 10000 it panics in a build with overflow checks; without them it  *)
(* wraps, the cast reads the wrapped value as the negative difference, and *)
(* the i64 sum cast back to u64 is weight + 10000 - total_weight.          *)
ResidualToFirst(allocs, checks) ==
    LET total_weight == SumWeights(allocs)
    IN  IF total_weight = 10000
        THEN [ok |-> TRUE, allocations |-> allocs]
        ELSE IF total_weight > 10000 /\ checks
        THEN [ok |-> FALSE, allocations |-> allocs]
        ELSE [ok |-> TRUE,
              allocations |->
                  [allocs EXCEPT ![1].weight =
                      allocs[1].weight + (10000 - total_weight)]]

rebalance_without_residual(allocs, checks) ==
    [ok |-> TRUE,
     allocations |-> [i \in 1..Len(allocs) |-> AdjustAllocation(allocs[i])]]

rebalance_allocations(allocs, checks) ==
    ResidualToFirst([i \in 1..Len(allocs) |-> AdjustAllocation(allocs[i])],
                    checks)

RECURSIVE WeightedApy(_)
WeightedApy(allocs) ==
    IF allocs = <<>> THEN 0
    ELSE (Head(allocs).current_apy * Head(allocs).weight) \div 10000
         + WeightedApy(Tail(allocs))

(* annual_rewards * time_diff / 31536000 in u128, then `as u64` *)
Reward(amount, weighted_apy, time_diff) ==
    TruncU64(NatDivSmall(
        NatMul(NatDivSmall(NatMulSmall(amount, weighted_apy), 10000),
               N(time_diff)),
        31536000))

calculate_pending_rewards(us, pool, t) ==
    Reward(us.amount, WeightedApy(pool.allocations), t - us.last_claim)

(* if amount > staking_pool.total_staked / 100, with the total already    *)
(* increased by amount                                                     *)
StakeTriggersRebalance(amount, total_staked) ==
    NatLess(NatDivSmall(total_staked, 100), amount)

stake_tokens(amount) ==
    LET t        == Transfer(tokens, "user_token_account",
                             "pool_token_account", amount)
        moved    == << <<"user_token_account", "pool_token_account", amount>> >>
        first    == user_stake.amount = Zero
        pending_rewards ==
                    calculate_pending_rewards(user_stake, staking_pool, now)
        pr       == AddU64(user_stake.pending_rewards, pending_rewards,
                           overflow_checks)
        am       == AddU64(user_stake.amount, amount, overflow_checks)
        us_first == [user_stake EXCEPT
                        !.amount = amount,
                        !.stake_timestamp = now,
                        !.last_claim = now,
                        !.ai_boost_active = NatLeq(BoostThreshold, amount)]
        us_pr    == [user_stake EXCEPT !.pending_rewards = pr.val]
        us_more  == [us_pr EXCEPT !.amount = am.val, !.last_claim = now]
        us1      == IF first THEN us_first ELSE us_more
        tot      == AddU64(staking_pool.total_staked, amount, overflow_checks)
        pool1    == [staking_pool EXCEPT !.total_staked = tot.val]
        trigger  == StakeTriggersRebalance(amount, pool1.total_staked)
        rb       == rebalance_allocations(pool1.allocations, overflow_checks)
        pool2    == [pool1 EXCEPT !.allocations = rb.allocations]
    IN  IF ~t.ok
        THEN Exit("TransferFailed", tokens, Recs, <<"transfer">>, <<>>)
        ELSE IF ~first /\ ~pr.ok
        THEN Exit("Panic", t.tokens, Recs, <<"transfer">>, moved)
        ELSE IF ~first /\ ~am.ok
        THEN Exit("Panic", t.tokens, [Recs EXCEPT !.user = us_pr],
                  <<"transfer", "write">>, moved)
        ELSE IF ~tot.ok
        THEN Exit("Panic", t.tokens, [Recs EXCEPT !.user = us1],
                  <<"transfer", "write">>, moved)
        ELSE IF trigger /\ ~rb.ok
        THEN Exit("Panic", t.tokens,
                  [Recs EXCEPT !.user = us1, !.pool = pool2],
                  <<"transfer", "write", "write", "write">>, moved)
        ELSE Exit("Ok", t.tokens,
                  [Recs EXCEPT !.user = us1,
                               !.pool = IF trigger THEN pool2 ELSE pool1],
                  IF trigger THEN <<"transfer", "write", "write", "write">>
                             ELSE <<"transfer", "write", "write">>,
                  moved)

HasRewardsAlways(total_rewards) == TRUE

(* require!(total_rewards > 0, NoRewardsToClaim) *)
HasRewards(total_rewards) == NatLess(Zero, total_rewards)

claim_rewards ==
    LET pending_rewards ==
                    calculate_pending_rewards(user_stake, staking_pool, now)
        total    == AddU64(user_stake.pending_rewards, pending_rewards,
                           overflow_checks)
        total_rewards == total.val
        final_rewards ==
            IF user_stake.ai_boost_active
            THEN TruncU64(NatDivSmall(
                     NatMulSmall(total_rewards,
                                 staking_pool.ai_boost_multiplier), 100))
            ELSE total_rewards
        t        == Transfer(tokens, "pool_token_account",
                             "user_token_account", final_rewards)
        moved    == << <<"pool_token_account", "user_token_account",
                         final_rewards>> >>
        claimed  == AddU64(user_stake.total_claimed, final_rewards,
                           overflow_checks)
        us_reset == [user_stake EXCEPT !.pending_rewards = Zero,
                                       !.last_claim = now]
        us1      == [us_reset EXCEPT !.total_claimed = claimed.val]
        paid     == AddU64(staking_pool.total_rewards, final_rewards,
                           overflow_checks)
        pool1    == [staking_pool EXCEPT !.total_rewards = paid.val]
    IN  IF ~total.ok
        THEN Exit("Panic", tokens, Recs, <<>>, <<>>)
        ELSE IF ~HasRewards(total_rewards)
        THEN Exit("NoRewardsToClaim", tokens, Recs, <<"require">>, <<>>)
        ELSE IF ~t.ok
        THEN Exit("TransferFailed", tokens, Recs,
                  <<"require", "transfer">>, <<>>)
        ELSE IF ~claimed.ok
        THEN Exit("Panic", t.tokens, [Recs EXCEPT !.user = us_reset],
                  <<"require", "transfer", "write">>, moved)
        ELSE IF ~paid.ok
        THEN Exit("Panic", t.tokens, [Recs EXCEPT !.user = us1],
                  <<"require", "transfer", "write">>, moved)
        ELSE Exit("Ok", t.tokens, [Recs EXCEPT !.user = us1, !.pool = pool1],
                  <<"require", "transfer", "write", "write">>, moved)

(* require!(current_time - last_rebalance > 86400, RebalanceTooFrequent) *)
RebalanceDue(current_time, pool) == current_time - pool.last_rebalance > 86400

ai_rebalance ==
    LET current_time == now
        rb    == rebalance_allocations(staking_pool.allocations,
                                       overflow_checks)
        pool1 == [staking_pool EXCEPT !.allocations = rb.allocations]
        pool2 == [pool1 EXCEPT !.last_rebalance = current_time]
    IN  IF ~RebalanceDue(current_time, staking_pool)
        THEN Exit("RebalanceTooFrequent", tokens, Recs, <<"require">>, <<>>)
        ELSE IF ~rb.ok
        THEN Exit("Panic", tokens, [Recs EXCEPT !.pool = pool1],
                  <<"require", "write">>, <<>>)
        ELSE Exit("Ok", tokens, [Recs EXCEPT !.pool = pool2],
                  <<"require", "write", "write">>, <<>>)

----------------------------------------------------------------------------
(* orgo_swap.rs                                                            *)

(* require!(burn_bps <= 1000, InvalidBurnRate) *)
ValidBurnRate(burn_bps) == burn_bps <= 1000

initiate_swap(amount_in, min_amount_out, burn_bps) ==
    LET t     == Transfer(tokens, "swap_user_token_account",
                          "escrow_token_account", amount_in)
        moved == << <<"swap_user_token_account", "escrow_token_account",
                      amount_in>> >>
        e1    == [amount_in      |-> amount_in,
                  min_amount_out |-> min_amount_out,
                  burn_bps       |-> burn_bps,
                  created_at     |-> now,
                  status         |-> "Pending"]
    IN  IF ~ValidBurnRate(burn_bps)
        THEN Exit("InvalidBurnRate", tokens, Recs, <<"require">>, <<>>)
        ELSE IF ~t.ok
        THEN Exit("TransferFailed", tokens, Recs,
                  <<"require", "transfer">>, <<>>)
        ELSE Exit("Ok", t.tokens, [Recs EXCEPT !.escrow = e1],
                  <<"require", "transfer", "write">>, moved)

BurnAmountUncapped(amount_in, burn_bps, volatility_multiplier) ==
    TruncU64(NatDivSmall(
        NatMulSmall(NatDivSmall(NatMulSmall(amount_in, burn_bps), 10000),
                    volatility_multiplier), 100))

(* the burn of execute_swap, in u128, cast to u64 *)
BurnAmount(amount_in, burn_bps, volatility_multiplier) ==
    LET base_burn     == NatDivSmall(NatMulSmall(amount_in, burn_bps), 10000)
        adjusted_burn == NatDivSmall(
                             NatMulSmall(base_burn, volatility_multiplier), 100)
    IN  TruncU64(NatMin(adjusted_burn, NatDivSmall(amount_in, 10)))

(* require!(clock.unix_timestamp - escrow.created_at < 86400, SwapExpired) *)
NotExpired(t, e) == t - e.created_at < 86400

StatusAny(e) == TRUE

(* require!(escrow.status == SwapStatus::Pending, InvalidStatus) *)
StatusIsPending(e) == e.status = "Pending"

MarkCancelled(e) == [e EXCEPT !.status = "Cancelled"]

(* escrow.status = SwapStatus::Completed *)
MarkCompleted(e) == [e EXCEPT !.status = "Completed"]

SaturatingSub(a, b) == IF NatLess(a, b) THEN Zero ELSE NatSub(a, b)

execute_swap(volatility_multiplier) ==
    LET burn_amount   == BurnAmount(escrow.amount_in, escrow.burn_bps,
                                    volatility_multiplier)
        output_amount == SaturatingSub(escrow.amount_in, burn_amount)
        t1     == Transfer(tokens, "escrow_token_account",
                           "recipient_token_account", output_amount)
        moved1 == << <<"escrow_token_account", "recipient_token_account",
                       output_amount>> >>
        t2     == Transfer(t1.tokens, "escrow_token_account", "burn_account",
                           burn_amount)
        moved2 == Append(moved1, <<"escrow_token_account", "burn_account",
                                   burn_amount>>)
        burns  == NatLess(Zero, burn_amount)
        e1     == MarkCompleted(escrow)
    IN  IF ~NotExpired(now, escrow)
        THEN Exit("SwapExpired", tokens, Recs, <<"require">>, <<>>)
        ELSE IF ~StatusIsPending(escrow)
        THEN Exit("InvalidStatus", tokens, Recs, <<"require", "require">>, <<>>)
        ELSE IF ~NatLeq(escrow.min_amount_out, output_amount)
        THEN Exit("SlippageExceeded", tokens, Recs,
                  <<"require", "require", "require">>, <<>>)
        ELSE IF ~t1.ok
        THEN Exit("TransferFailed", tokens, Recs,
                  <<"require", "require", "require", "transfer">>, <<>>)
        ELSE IF burns /\ ~t2.ok
        THEN Exit("TransferFailed", t1.tokens, Recs,
                  <<"require", "require", "require", "transfer", "transfer">>,
                  moved1)
        ELSE IF burns
        THEN Exit("Ok", t2.tokens, [Recs EXCEPT !.escrow = e1],
                  <<"require", "require", "require", "transfer", "transfer",
                    "write">>, moved2)
        ELSE Exit("Ok", t1.tokens, [Recs EXCEPT !.escrow = e1],
                  <<"require", "require", "require", "transfer", "write">>,
                  moved1)

FeeDiscountUncapped(amount) ==
    LET d == NatMulSmall(NatDivSmall(amount, 100000000), 50)
    IN  ToInt(SubSeq(d, 1, Min(4, Len(d))))

(* (amount / 100_000_000 * 50).min(5000) as u16 *)
FeeDiscountBps(amount) ==
    ToInt(NatMin(NatMulSmall(NatDivSmall(amount, 100000000), 50), N(5000)))

stake_orgo_writes_first(amount, to_self) ==
    LET dest  == IF to_self THEN "user_orgo_account" ELSE "stake_orgo_account"
        t     == Transfer(tokens, "user_orgo_account", dest, amount)
        moved == << <<"user_orgo_account", dest, amount>> >>
        sum   == NatAdd(stake_account.amount, amount)
        s1    == [stake_account EXCEPT !.amount = TruncU64(sum),
                                       !.last_staked = now]
        s2    == [s1 EXCEPT !.fee_discount_bps = FeeDiscountBps(s1.amount)]
    IN  IF ~FitsU64(sum)
        THEN Exit("Panic", tokens, Recs, <<"write">>, <<>>)
        ELSE IF ~t.ok
        THEN Exit("TransferFailed", tokens, [Recs EXCEPT !.stake = s2],
                  <<"write", "write", "transfer">>, <<>>)
        ELSE Exit("Ok", t.tokens, [Recs EXCEPT !.stake = s2],
                  <<"write", "write", "transfer">>, moved)

(* StakeOrgo leaves both token accounts to the caller: the destination is  *)
(* the stake custody account, or (to_self) the account the tokens come     *)
(* from.                                                                   *)
stake_orgo(amount, to_self) ==
    LET dest  == IF to_self THEN "user_orgo_account" ELSE "stake_orgo_account"
        t     == Transfer(tokens, "user_orgo_account", dest, amount)
        moved == << <<"user_orgo_account", dest, amount>> >>
        sum   == NatAdd(stake_account.amount, amount)
        s1    == [stake_account EXCEPT !.amount = sum, !.last_staked = now]
        s2    == [s1 EXCEPT !.fee_discount_bps = FeeDiscountBps(s1.amount)]
    IN  IF ~t.ok
        THEN Exit("TransferFailed", tokens, Recs, <<"transfer">>, <<>>)
        ELSE IF ~FitsU64(sum)
        THEN Exit("Panic", t.tokens, Recs, <<"transfer", "write">>, moved)
        ELSE Exit("Ok", t.tokens, [Recs EXCEPT !.stake = s2],
                  <<"transfer", "write", "write">>, moved)

----------------------------------------------------------------------------
(* Inputs tried.                                                           *)

Billion == N(1000000000)

StakeAmounts == {Zero, N(1), NatMulSmall(Billion, 50), NatMulSmall(Billion, 150)}

SwapAmounts == {Zero, N(9), N(1000000), U64Max}
MinAmountsOut == {Zero, N(980001)}
BurnRates == {100, 1000, 1001}
Multipliers == {0, 100, 200, 65535}

OrgoAmounts == {Zero, N(250000000), N(750000000), NatMulSmall(Billion, 10),
                U64Max}

InitialTokens ==
    [a \in {"user_token_account", "pool_token_account",
            "swap_user_token_account", "escrow_token_account",
            "recipient_token_account", "burn_account",
            "user_orgo_account", "stake_orgo_account"} |->
        IF a = "user_token_account" THEN NatAdd(NatMulSmall(Billion, 200), N(1))
        ELSE IF a \in {"swap_user_token_account", "user_orgo_account"}
        THEN U64Max
        ELSE Zero]

IdleProbe == [phase |-> "idle", amount |-> Zero, w1 |-> 0, w2 |-> 0,
              t1 |-> 0, t2 |-> 0, r1 |-> Zero, r2 |-> Zero]

Init ==
    /\ now = 0
    /\ overflow_checks \in BOOLEAN
    /\ tokens = InitialTokens
    /\ accounts = {"staking_pool"}
    /\ staking_pool = initialize_staking_pool(now)
    /\ user_stake = [amount |-> Zero, stake_timestamp |-> 0, last_claim |-> 0,
                     pending_rewards |-> Zero, total_claimed |-> Zero,
                     ai_boost_active |-> FALSE]
    /\ escrow = [amount_in |-> Zero, min_amount_out |-> Zero, burn_bps |-> 0,
                 created_at |-> 0, status |-> "Uninitialized"]
    /\ stake_account = [amount |-> Zero, last_staked |-> 0,
                        fee_discount_bps |-> 0]
    /\ last = [op |-> "none", input |-> NoInput, result |-> "Ok",
               trace |-> <<>>, moved |-> <<>>, dirty |-> Recs,
               before |-> Recs, tokens_before |-> tokens, at |-> 0]
    /\ history = [first_stake |-> "none", deposited |-> Zero,
                  executed |-> FALSE, rebalances |-> 0,
                  rebalance_calls |-> 0]
    /\ probe = IdleProbe
    /\ steps = 0

(* The runtime runs an instruction to completion and keeps its effects     *)
(* only if it returns Ok; otherwise balances and records stay as they      *)
(* were.                                                                   *)
Commit(op, input, r) ==
    /\ steps < MaxSteps
    /\ steps' = steps + 1
    /\ last' = [op |-> op, input |-> input, result |-> r.result,
                trace |-> r.trace, moved |-> r.moved, dirty |-> r.recs,
                before |-> Recs, tokens_before |-> tokens, at |-> now]
    /\ tokens' = IF r.result = "Ok" THEN r.tokens ELSE tokens
    /\ staking_pool' = IF r.result = "Ok" THEN r.recs.pool ELSE staking_pool
    /\ user_stake' = IF r.result = "Ok" THEN r.recs.user ELSE user_stake
    /\ escrow' = IF r.result = "Ok" THEN r.recs.escrow ELSE escrow
    /\ stake_account' = IF r.result = "Ok" THEN r.recs.stake ELSE stake_account
    /\ UNCHANGED <<now, overflow_checks, probe>>

Rejected(result) == Exit(result, tokens, Recs, <<>>, <<>>)

Tick ==
    /\ steps < MaxSteps
    /\ \E d \in Deltas : now' = now + d
    /\ steps' = steps + 1
    /\ UNCHANGED <<overflow_checks, tokens, accounts, staking_pool, user_stake,
                   escrow, stake_account, last, history, probe>>

StakeTokens ==
    \E amount \in StakeAmounts :
        LET r == stake_tokens(amount)
            ok == r.result = "Ok"
        IN  /\ Commit("stake_tokens", [NoInput EXCEPT !.amount = amount], r)
            /\ accounts' = IF ok THEN accounts \cup {"user_stake"} ELSE accounts
            /\ history' =
                 [history EXCEPT
                    !.first_stake =
                        IF ok /\ history.first_stake = "none"
                        THEN (IF NatLeq(BoostThreshold, amount)
                              THEN "boost" ELSE "plain")
                        ELSE @,
                    !.rebalances =
                        IF ok /\ StakeTriggersRebalance(
                                     amount, r.recs.pool.total_staked)
                        THEN @ + 1 ELSE @,
                    !.rebalance_calls =
                        IF r.trace = <<"transfer", "write", "write", "write">>
                        THEN @ + 1 ELSE @]

ClaimRewards ==
    \/ /\ "user_stake" \notin accounts
       /\ Commit("claim_rewards", NoInput, Rejected("AccountNotInitialized"))
       /\ UNCHANGED <<accounts, history>>
    \/ /\ "user_stake" \in accounts
       /\ Commit("claim_rewards", NoInput, claim_rewards)
       /\ UNCHANGED <<accounts, history>>

AIRebalance ==
    LET r == ai_rebalance
    IN  /\ Commit("ai_rebalance", NoInput, r)
        /\ history' = [history EXCEPT
                          !.rebalances = IF r.result = "Ok" THEN @ + 1 ELSE @,
                          !.rebalance_calls =
                              IF r.result # "RebalanceTooFrequent"
                              THEN @ + 1 ELSE @]
        /\ UNCHANGED accounts

(* `init` refuses an escrow account that exists, and an instruction on an  *)
(* account that does not exist is refused, before the handler runs.        *)
InitiateSwap ==
    \/ /\ "escrow" \in accounts
       /\ Commit("initiate_swap", NoInput, Rejected("AccountAlreadyInUse"))
       /\ UNCHANGED <<accounts, history>>
    \/ /\ "escrow" \notin accounts
       /\ \E amount_in \in SwapAmounts, min_amount_out \in MinAmountsOut,
             burn_bps \in BurnRates :
              LET r == initiate_swap(amount_in, min_amount_out, burn_bps)
              IN  /\ Commit("initiate_swap",
                            [NoInput EXCEPT !.amount = amount_in,
                                            !.min_amount_out = min_amount_out,
                                            !.burn_bps = burn_bps], r)
                  /\ accounts' = IF r.result = "Ok"
                                 THEN accounts \cup {"escrow"} ELSE accounts
                  /\ UNCHANGED history

ExecuteSwap ==
    \/ /\ "escrow" \notin accounts
       /\ Commit("execute_swap", NoInput, Rejected("AccountNotInitialized"))
       /\ UNCHANGED <<accounts, history>>
    \/ /\ "escrow" \in accounts
       /\ \E volatility_multiplier \in Multipliers :
              LET r == execute_swap(volatility_multiplier)
              IN  /\ Commit("execute_swap",
                            [NoInput EXCEPT
                                !.multiplier = volatility_multiplier], r)
                  /\ history' = [history EXCEPT
                                    !.executed = @ \/ r.result = "Ok"]
                  /\ UNCHANGED accounts

StakeOrgo ==
    \E amount \in OrgoAmounts, to_self \in BOOLEAN :
        LET r == stake_orgo(amount, to_self)
        IN  /\ Commit("stake_orgo",
                      [NoInput EXCEPT !.amount = amount, !.to_self = to_self],
                      r)
            /\ accounts' = IF r.result = "Ok"
                           THEN accounts \cup {"stake_account"} ELSE accounts
            /\ history' = [history EXCEPT
                              !.deposited = IF r.result = "Ok"
                                            THEN NatAdd(@, amount) ELSE @]

NextStaking == Tick \/ StakeTokens \/ ClaimRewards \/ AIRebalance
NextSwap == Tick \/ InitiateSwap \/ ExecuteSwap
NextDiscount == StakeOrgo
Next == NextStaking \/ NextSwap \/ NextDiscount

StakingOps == {"stake_tokens", "claim_rewards", "ai_rebalance"}
SwapOps == {"initiate_swap", "execute_swap"}
DiscountOps == {"stake_orgo"}

(* The three modules share no record and no token account, so a run that   *)
(* exercises one module at a time loses nothing of the handlers.           *)
NextPerModule ==
    \/ (last.op \in {"none"} \cup StakingOps /\ NextStaking)
    \/ (last.op \in {"none"} \cup SwapOps /\ NextSwap)
    \/ (last.op \in {"none"} \cup DiscountOps /\ NextDiscount)

(* calculate_pending_rewards on its own: the inputs are drawn in the       *)
(* initial state and one step evaluates the function at (w1, t1) and at    *)
(* (w2, t2) with w1 <= w2 and t1 <= t2.                                    *)
ProbeAmounts == {Zero, N(1), NatMulSmall(Billion, 150), U64Max}
ProbeApys == {0, 1650, 1785}
ProbeTimes == {0, 1, SecondsPerYear, 6 * SecondsPerYear, SevenYears}

InitReward ==
    /\ now = 0
    /\ overflow_checks \in BOOLEAN
    /\ tokens = InitialTokens
    /\ accounts = {"staking_pool"}
    /\ staking_pool = initialize_staking_pool(now)
    /\ user_stake = [amount |-> Zero, stake_timestamp |-> 0, last_claim |-> 0,
                     pending_rewards |-> Zero, total_claimed |-> Zero,
                     ai_boost_active |-> FALSE]
    /\ escrow = [amount_in |-> Zero, min_amount_out |-> Zero, burn_bps |-> 0,
                 created_at |-> 0, status |-> "Uninitialized"]
    /\ stake_account = [amount |-> Zero, last_staked |-> 0,
                        fee_discount_bps |-> 0]
    /\ last = [op |-> "none", input |-> NoInput, result |-> "Ok",
               trace |-> <<>>, moved |-> <<>>, dirty |-> Recs,
               before |-> Recs, tokens_before |-> tokens, at |-> 0]
    /\ history = [first_stake |-> "none", deposited |-> Zero,
                  executed |-> FALSE, rebalances |-> 0,
                  rebalance_calls |-> 0]
    /\ steps = 0
    /\ \E amount \in ProbeAmounts, w1 \in ProbeApys, w2 \in ProbeApys,
          t1 \in ProbeTimes, t2 \in ProbeTimes :
          /\ w1 <= w2
          /\ t1 <= t2
          /\ probe = [phase |-> "in", amount |-> amount, w1 |-> w1,
                      w2 |-> w2, t1 |-> t1, t2 |-> t2,
                      r1 |-> Zero, r2 |-> Zero]

EvalReward ==
    /\ probe.phase = "in"
    /\ probe' = [probe EXCEPT
                    !.phase = "out",
                    !.r1 = Reward(probe.amount, probe.w1, probe.t1),
                    !.r2 = Reward(probe.amount, probe.w2, probe.t2)]
    /\ UNCHANGED <<now, overflow_checks, tokens, accounts, staking_pool,
                   user_stake, escrow, stake_account, last, history, steps>>

Spec == Init /\ [][Next]_vars
SpecPerModule == Init /\ [][NextPerModule]_vars
SpecReward == InitReward /\ [][EvalReward]_vars
SpecStaking == Init /\ [][NextStaking]_vars
SpecSwap == Init /\ [][NextSwap]_vars
SpecDiscount == Init /\ [][NextDiscount]_vars

----------------------------------------------------------------------------
(* Properties.                                                             *)

(* C1: in every state reachable from initialize_staking_pool by ai_rebalance *)
(* and stake_tokens calls, the weights of the pool's allocations sum to    *)
(* exactly 10000 bps.                                                      *)
C1_WeightsSumTo10000 == SumWeights(staking_pool.allocations) = 10000

C1_Witness ==
    /\ history.rebalances >= 2
    /\ staking_pool.allocations[1].weight = 6900
    /\ staking_pool.allocations[3].weight = 600

ExecuteSucceeded == last.op = "execute_swap" /\ last.result = "Ok"

(* C2: a successful execute_swap burns                                     *)
(* min(floor(floor(amount_in * burn_bps / 10000) * multiplier / 100),      *)
(* floor(amount_in / 10)), which is at most amount_in / 10, and the amount *)
(* sent to the recipient plus the amount sent to the burn account is       *)
(* amount_in; 1_000_000 at 100 bps and multiplier 200 burns 20_000 and     *)
(* pays out 980_000.                                                       *)
C2_BurnCappedNoLeak ==
    ExecuteSucceeded =>
        LET a == last.before.escrow.amount_in
            b == last.before.escrow.burn_bps
            v == last.input.multiplier
            to_recipient == tokens["recipient_token_account"]
            to_burn == tokens["burn_account"]
        IN  /\ to_burn =
                 NatMin(NatDivSmall(
                            NatMul(NatDivSmall(NatMul(a, N(b)), 10000), N(v)),
                            100),
                        NatDivSmall(a, 10))
            /\ NatLeq(NatMulSmall(to_burn, 10), a)
            /\ NatAdd(to_recipient, to_burn) = a
            /\ tokens["escrow_token_account"] = Zero
            /\ (a = N(1000000) /\ b = 100 /\ v = 200
                  => to_burn = N(20000) /\ to_recipient = N(980000))

C2_Witness ==
    /\ ExecuteSucceeded
    /\ last.before.escrow.amount_in = N(1000000)
    /\ last.before.escrow.burn_bps = 100
    /\ last.input.multiplier = 200
    /\ tokens["burn_account"] = N(20000)

(* A step that is a call of execute_swap on an escrow on which             *)
(* execute_swap has succeeded before.                                      *)
ExecuteAgain ==
    /\ history.executed
    /\ now' = now
    /\ steps' # steps
    /\ last'.op = "execute_swap"

(* C3 as stated: every execute_swap after a successful one fails with      *)
(* InvalidStatus, at any later clock value, and moves no tokens.           *)
C3_Original ==
    [][ExecuteAgain => last'.result = "InvalidStatus" /\ tokens' = tokens]_vars

(* C3: every execute_swap after a successful one fails and moves no        *)
(* tokens; the error is InvalidStatus while fewer than 86400 seconds have  *)
(* passed since created_at and SwapExpired from then on.                   *)
C3_SecondExecuteFails ==
    [][ExecuteAgain =>
          /\ last'.result = IF now - escrow.created_at < SecondsPerDay
                            THEN "InvalidStatus" ELSE "SwapExpired"
          /\ last'.moved = <<>>
          /\ tokens' = tokens
          /\ escrow' = escrow]_vars

C3_Witness ==
    /\ history.executed
    /\ last.op = "execute_swap"
    /\ last.result = "InvalidStatus"

(* C4: ai_rebalance fails with RebalanceTooFrequent iff fewer than 86400   *)
(* seconds have passed since last_rebalance; from exactly 86400 seconds on *)
(* it succeeds, reallocates and sets last_rebalance to now.                *)
C4_Original ==
    last.op = "ai_rebalance" =>
        LET elapsed == last.at - last.before.pool.last_rebalance
        IN  /\ (last.result = "RebalanceTooFrequent") <=> (elapsed < SecondsPerDay)
            /\ elapsed >= SecondsPerDay =>
                  /\ last.result = "Ok"
                  /\ staking_pool.last_rebalance = last.at

(* C5: execute_swap on a Pending escrow is rejected with SwapExpired       *)
(* exactly when more than 86400 seconds have passed since created_at; at   *)
(* exactly 86400 seconds it is not rejected as expired.                    *)
C5_Original ==
    (last.op = "execute_swap" /\ last.before.escrow.status = "Pending") =>
        ((last.result = "SwapExpired")
            <=> (last.at - last.before.escrow.created_at > SecondsPerDay))

(* C6: ai_boost_active is fixed by the first stake_tokens call (true iff   *)
(* its amount is at least 100_000_000_000) and no later stake_tokens or    *)
(* claim_rewards call changes it.                                          *)
C6_Original ==
    history.first_stake # "none" =>
        (user_stake.ai_boost_active <=> history.first_stake = "boost")

ClaimRan == last.op = "claim_rewards" /\ last.result # "AccountNotInitialized"

(* pending_rewards plus the rewards accrued since last_claim, at the call *)
ClaimTotal ==
    NatAdd(last.before.user.pending_rewards,
           calculate_pending_rewards(last.before.user, last.before.pool,
                                     last.at))

ClaimLeftUntouched ==
    /\ last.moved = <<>>
    /\ tokens = last.tokens_before
    /\ user_stake = last.before.user
    /\ staking_pool = last.before.pool

(* C7 as stated: a zero total is rejected with NoRewardsToClaim and        *)
(* changes nothing, and a positive total always succeeds, leaving          *)
(* pending_rewards == 0 and last_claim == now.                             *)
C7_Original ==
    ClaimRan =>
        /\ ClaimTotal = Zero =>
              last.result = "NoRewardsToClaim" /\ ClaimLeftUntouched
        /\ ClaimTotal # Zero =>
              /\ last.result = "Ok"
              /\ user_stake.pending_rewards = Zero
              /\ user_stake.last_claim = last.at

(* C7: a zero total is rejected with NoRewardsToClaim, moves no tokens and *)
(* leaves pending_rewards, last_claim, total_claimed and total_rewards     *)
(* unchanged; a call that succeeds had a positive total and leaves         *)
(* pending_rewards == 0 and last_claim == now; a positive total can still  *)
(* fail, in the transfer out of the pool's token account, and then changes *)
(* nothing either.                                                         *)
C7_ZeroRejectedSuccessResets ==
    ClaimRan =>
        /\ ClaimTotal = Zero =>
              last.result = "NoRewardsToClaim" /\ ClaimLeftUntouched
        /\ last.result = "Ok" =>
              /\ ClaimTotal # Zero
              /\ user_stake.pending_rewards = Zero
              /\ user_stake.last_claim = last.at
        /\ last.result # "Ok" => ClaimLeftUntouched

C7_Witness ==
    /\ ClaimRan
    /\ last.result = "NoRewardsToClaim"
    /\ last.before.user.amount # Zero
    /\ last.at > last.before.user.last_claim

(* C8: no handler writes a field of a record before all the token          *)
(* transfers of the instruction have succeeded, and an instruction in      *)
(* which a transfer or a require-check fails ends with every record as it  *)
(* was before the call.                                                    *)
C8_TransfersBeforeWrites ==
    /\ \A i, j \in 1..Len(last.trace) :
          (i < j /\ last.trace[i] = "write") => last.trace[j] # "transfer"
    /\ last.result \notin {"Ok", "Panic"} => last.dirty = last.before
    /\ last.result # "Ok" => Recs = last.before /\ tokens = last.tokens_before

C8_Witness ==
    /\ last.op = "claim_rewards"
    /\ last.result = "TransferFailed"
    /\ last.trace = <<"require", "transfer">>

(* C9: for a fixed amount the value returned by calculate_pending_rewards  *)
(* is non-decreasing in the elapsed time and in the weighted APY, also     *)
(* after the truncation of the u128 result to u64.                         *)
C9_Original ==
    probe.phase = "out" => NatLeq(probe.r1, probe.r2)

(* C10: after every successful stake_orgo, fee_discount_bps is             *)
(* min(floor(cumulative / 100_000_000) * 50, 5000) of the sum of all       *)
(* amounts deposited; it is at most 5000, never decreases, is 100 at       *)
(* 250_000_000 and 500 at 1_000_000_000; a deposit that would overflow the *)
(* u64 amount fails instead of wrapping.                                   *)
C10_DiscountFromCumulative ==
    /\ stake_account.amount = history.deposited
    /\ stake_account.fee_discount_bps =
          ToInt(NatMin(NatMul(NatDivSmall(history.deposited, DiscountUnit),
                              N(DiscountPerUnit)),
                       N(MaxDiscountBps)))
    /\ stake_account.fee_discount_bps <= MaxDiscountBps
    /\ history.deposited = N(250000000) => stake_account.fee_discount_bps = 100
    /\ history.deposited = Billion => stake_account.fee_discount_bps = 500
    /\ (last.op = "stake_orgo" /\ last.result = "Ok") =>
          /\ last.before.stake.fee_discount_bps <= stake_account.fee_discount_bps
          /\ FitsU64(NatAdd(last.before.stake.amount, last.input.amount))
    /\ (last.op = "stake_orgo"
        /\ ~FitsU64(NatAdd(last.before.stake.amount, last.input.amount))) =>
          last.result # "Ok" /\ stake_account = last.before.stake

C10_Witness ==
    /\ last.op = "stake_orgo"
    /\ last.result = "Ok"
    /\ last.before.stake.amount = N(250000000)
    /\ history.deposited = Billion
    /\ stake_account.fee_discount_bps = 500

(* A step that is a call of the instruction op. *)
Calls(op) == now' = now /\ steps' # steps /\ last'.op = op

(* C11: an escrow's status makes the single transition Pending ->          *)
(* Completed: a successful initiate_swap sets Pending, a successful        *)
(* execute_swap, which needs Pending, sets Completed, no instruction       *)
(* changes a field of a Completed escrow, a failed execute_swap leaves the *)
(* escrow as it was, and Cancelled is never reached.                       *)
C11_PendingThenCompleted ==
    [][/\ escrow'.status # "Cancelled"
       /\ escrow.status = "Completed" => escrow' = escrow
       /\ escrow' # escrow =>
             \/ /\ Calls("initiate_swap")
                /\ last'.result = "Ok"
                /\ escrow.status = "Uninitialized"
                /\ escrow'.status = "Pending"
             \/ /\ Calls("execute_swap")
                /\ last'.result = "Ok"
                /\ escrow.status = "Pending"
                /\ escrow' = [escrow EXCEPT !.status = "Completed"]
       /\ (Calls("initiate_swap") /\ last'.result = "Ok") =>
             escrow'.status = "Pending"
       /\ (Calls("execute_swap") /\ last'.result = "Ok") =>
             escrow.status = "Pending" /\ escrow'.status = "Completed"
       /\ (Calls("execute_swap")
           /\ last'.result \in {"SwapExpired", "InvalidStatus",
                                "SlippageExceeded"}) =>
             escrow' = escrow]_vars

C11_Witness ==
    /\ escrow.status = "Completed"
    /\ last.op = "execute_swap"
    /\ last.result = "SwapExpired"
    /\ last.before.escrow.status = "Completed"

(* The allocations every rebalance would leave unchanged. *)
FixedPoint ==
    << [protocol |-> "Meteora", weight |-> 7000, current_apy |-> 1900,
        risk_score |-> 200],
       [protocol |-> "Raydium", weight |-> 2500, current_apy |-> 1600,
        risk_score |-> 300],
       [protocol |-> "Orca", weight |-> 500, current_apy |-> 1100,
        risk_score |-> 150] >>

WeightsInRange ==
    /\ staking_pool.allocations[1].weight \in 6000..7000
    /\ staking_pool.allocations[3].weight \in 500..1000

(* C12: from the initial allocations, after any number of rebalances (by   *)
(* ai_rebalance or triggered by stake_tokens) the Meteora weight is within *)
(* [6000, 7000] and the Orca weight within [500, 1000], and once           *)
(* rebalance_allocations has run three times the allocations are at the    *)
(* fixed point 7000/1900, 2500/1600, 500/1100 and stay there.              *)
C12_Original ==
    /\ WeightsInRange
    /\ history.rebalance_calls >= 3 => staking_pool.allocations = FixedPoint

====
